---- MODULE Spec2Model ----
(***************************************************************************)
(* Model of pkg/loggerinfo/drain/drain.go: the Drain log-template miner.   *)
(*                                                                         *)
(* Strings are sequences of one-character strings, so that tokenization,   *)
(* strconv.Itoa and hasNumbers are computed the way the code computes      *)
(* them.  A token is such a sequence too.                                  *)
(*                                                                         *)
(* Timestamps are counted in seconds instead of nanoseconds (TLC integers  *)
(* are 32 bits wide): timeResolution is 10 s.  The one place where the     *)
(* unit could matter is Volume.Add's binary search, which compares a       *)
(* bucket's count with the truncated timestamp; with counts below 10 the   *)
(* comparison has the same outcome in both units (count >= t iff t <= 0).  *)
(***************************************************************************)
EXTENDS Integers, Sequences, FiniteSets, TLC

\* config .. clustersCounter are the fields of Drain; panicked tells that a
\* call has panicked; ret is the last call and what it returned; nTrain,
\* assigned, touchOrder and created record the history the properties speak
\* about (created: the identifiers given to new clusters, in order).
VARIABLES config, rootNode, idToCluster, clustersCounter, panicked, ret,
          nTrain, assigned, touchOrder, created
vars == <<config, rootNode, idToCluster, clustersCounter, panicked, ret,
          nTrain, assigned, touchOrder, created>>

\* ------------------------------------------------------------------ bounds
\* number of Train calls explored in one run of the engine
MaxTrain == 4
\* number of Train calls explored in one run of the volume specification
MaxVolTrain == 3
MaxSimTrain == 3

\* ------------------------------------------------------- program constants
timeResolution == 10
maxSamples == 10
\* math.MaxInt, the capacity createLogClusterCache uses for MaxClusters = 0;
\* the largest integer TLC has, never reached by any cache of the model
MaxInt == 2147483647

\* -------------------------------------------------------------- utilities
Max(a, b) == IF a >= b THEN a ELSE b
Range(s) == {s[i] : i \in 1..Len(s)}
\* s without its element at (1-based) position i
RemoveAt(s, i) == SubSeq(s, 1, i - 1) \o SubSeq(s, i + 1, Len(s))
\* the first position of x in s, 0 when there is none
IndexOf(s, x) ==
    IF \E i \in 1..Len(s) : s[i] = x
    THEN CHOOSE i \in 1..Len(s) : s[i] = x /\ \A j \in 1..(i - 1) : s[j] # x
    ELSE 0

\* Go's remainder: the sign follows the dividend
GoRem(a, b) == IF a >= 0 THEN a % b ELSE -((-a) % b)

\* ---------------------------------------------------------------- strings
Digits == <<"0", "1", "2", "3", "4", "5", "6", "7", "8", "9">>
WhiteSpace == {" ", "\t", "\n", "\r"}

RECURSIVE Itoa(_)
Itoa(n) == IF n < 10 THEN <<Digits[n + 1]>>
           ELSE Itoa(n \div 10) \o <<Digits[(n % 10) + 1]>>

RECURSIVE TrimSpace(_)
TrimSpace(s) ==
    IF s = <<>> THEN s
    ELSE IF Head(s) \in WhiteSpace THEN TrimSpace(Tail(s))
    ELSE IF s[Len(s)] \in WhiteSpace THEN TrimSpace(SubSeq(s, 1, Len(s) - 1))
    ELSE s

HasPrefix(s, p) == Len(p) <= Len(s) /\ SubSeq(s, 1, Len(p)) = p

\* strings.Replace(s, old, new, -1) for a non-empty old
RECURSIVE ReplaceAll(_, _, _)
ReplaceAll(s, old, new) ==
    IF s = <<>> \/ old = <<>> THEN s
    ELSE IF HasPrefix(s, old)
         THEN new \o ReplaceAll(SubSeq(s, Len(old) + 1, Len(s)), old, new)
         ELSE <<Head(s)>> \o ReplaceAll(Tail(s), old, new)

\* strings.Split(s, " "): never empty, the empty string gives one empty token
RECURSIVE Split(_)
Split(s) ==
    LET i == IndexOf(s, " ")
    IN IF i = 0 THEN <<s>>
       ELSE <<SubSeq(s, 1, i - 1)>> \o Split(SubSeq(s, i + 1, Len(s)))

RECURSIVE ReplaceDelimiters(_, _)
ReplaceDelimiters(content, delims) ==
    IF delims = <<>> THEN content
    ELSE ReplaceDelimiters(ReplaceAll(content, Head(delims), <<" ">>), Tail(delims))

getContentAsTokens(cfg, content) ==
    Split(ReplaceDelimiters(TrimSpace(content), cfg.ExtraDelimiters))

hasNumbers(s) == \E i \in 1..Len(s) : s[i] \in Range(Digits)

\* ----------------------------------------------------------------- Volume
\* A Volume is the sequence Values of <<timestamp, count>> pairs.
truncateTimestamp(ts) == ts - GoRem(ts, timeResolution)

initVolume(ts) == << <<ts, 1>> >>

\* sort.Search(n, f): f is a function on 0..n-1
RECURSIVE SearchLoop(_, _, _)
SearchLoop(i, j, f) ==
    IF i < j
    THEN LET h == (i + j) \div 2
         IN IF ~f[h] THEN SearchLoop(h + 1, j, f) ELSE SearchLoop(i, h, f)
    ELSE i
Search(n, f) == SearchLoop(0, n, f)

ForRange(x, start, end) ==
    IF Len(x) = 0 THEN <<>>
    ELSE LET first == x[1][1]
             last == x[Len(x)][1]
         IN IF start >= end \/ first >= end \/ last < start THEN <<>>
            ELSE LET lo == IF start > first
                           THEN Search(Len(x), [i \in 0..(Len(x) - 1) |-> x[i + 1][1] >= start])
                           ELSE 0
                     hi == IF end < last
                           THEN Search(Len(x), [i \in 0..(Len(x) - 1) |-> x[i + 1][1] >= end])
                           ELSE Len(x)
                 IN SubSeq(x, lo + 1, hi)

RECURSIVE Matches(_)
Matches(x) == IF x = <<>> THEN 0 ELSE x[1][2] + Matches(Tail(x))

\* slices.Insert(x, index, v), index 0-based
Insert(x, index, v) == SubSeq(x, 1, index) \o <<v>> \o SubSeq(x, index + 1, Len(x))

\* Add whose prepend overwrites the first bucket instead of shifting
AddPrependOverwrites(x, ts) ==
    LET t == truncateTimestamp(ts)
        n == Len(x)
        first == x[1][1]
        last == x[n][1]
    IN IF last = t THEN [x EXCEPT ![n] = <<x[n][1], x[n][2] + 1>>]
       ELSE IF first > t THEN [x EXCEPT ![1] = <<t, 1>>]
       ELSE IF last < t THEN Append(x, <<t, 1>>)
       ELSE LET index == Search(n, [i \in 0..(n - 1) |-> x[i + 1][2] >= t])
            IN IF index < n /\ x[index + 1][2] = t
               THEN [x EXCEPT ![index + 1] = <<x[index + 1][1], x[index + 1][2] + 1>>]
               ELSE Insert(x, index, <<t, 1>>)

Add(x, ts) ==
    LET t == truncateTimestamp(ts)
        n == Len(x)
        first == x[1][1]
        last == x[n][1]
    IN IF last = t THEN [x EXCEPT ![n] = <<x[n][1], x[n][2] + 1>>]
       ELSE IF first > t THEN << <<t, 1>> >> \o x
       ELSE IF last < t THEN Append(x, <<t, 1>>)
       ELSE LET index == Search(n, [i \in 0..(n - 1) |-> x[i + 1][2] >= t])
            IN IF index < n /\ x[index + 1][2] = t
               THEN [x EXCEPT ![index + 1] = <<x[index + 1][1], x[index + 1][2] + 1>>]
               ELSE Insert(x, index, <<t, 1>>)

\* LogCluster.append
LogClusterAppend(c, content, ts) ==
    [c EXCEPT !.Volume = Add(c.Volume, ts),
              !.Samples = IF Len(c.Samples) < maxSamples
                          THEN Append(c.Samples, content) ELSE c.Samples]

\* ------------------------------------------------------- LogClusterCache
\* The simplelru cache: keys from the least to the most recently used (the
\* order of Keys()), the cluster stored for each key, and the capacity.
createLogClusterCache(maxSize) ==
    [size |-> IF maxSize = 0 THEN MaxInt ELSE maxSize,
     keys |-> <<>>,
     items |-> <<>>]

Has(cache, key) == key \in Range(cache.keys)

\* Set that never evicts
SetNoEviction(cache, key, cluster) ==
    [cache EXCEPT !.keys = Append(SelectSeq(@, LAMBDA k : k # key), key),
                  !.items = [k \in DOMAIN @ \cup {key} |->
                                IF k = key THEN cluster ELSE @[k]]]

\* simplelru Add of a key: a present key becomes the most recently used and
\* its value is replaced; a new key is added and, over capacity, the least
\* recently used entry is removed
Set(cache, key, cluster) ==
    IF Has(cache, key)
    THEN [cache EXCEPT !.keys = Append(RemoveAt(@, IndexOf(@, key)), key),
                       !.items = [@ EXCEPT ![key] = cluster]]
    ELSE LET keys == Append(cache.keys, key)
             items == [k \in DOMAIN cache.items \cup {key} |->
                          IF k = key THEN cluster ELSE cache.items[k]]
         IN IF Len(keys) > cache.size
            THEN [cache EXCEPT !.keys = Tail(keys),
                               !.items = [k \in DOMAIN items \ {Head(keys)} |-> items[k]]]
            ELSE [cache EXCEPT !.keys = keys, !.items = items]

\* LogClusterCache.Get calls the cache's Get: a hit makes the key the most
\* recently used.  This is the cache after the call; the value returned is
\* cache.items[key] on a hit and nil on a miss.
Get(cache, key) ==
    IF Has(cache, key)
    THEN [cache EXCEPT !.keys = Append(RemoveAt(@, IndexOf(@, key)), key)]
    ELSE cache

\* the clusters from the least to the most recently used
Values(cache) == [i \in 1..Len(cache.keys) |-> cache.items[cache.keys[i]]]

\* ------------------------------------------------------------ prefix tree
\* The tree is a function from the path of a node (the keys from the root,
\* the root being the empty path) to the node's clusterIDs; a node's
\* keyToChildNode holds the paths one key longer.
createNode == <<>>

ChildKeys(root, path) ==
    {p[Len(p)] : p \in {q \in DOMAIN root : Len(q) = Len(path) + 1
                                            /\ SubSeq(q, 1, Len(path)) = path}}
HasChild(root, path, key) == Append(path, key) \in DOMAIN root
NumChildren(root, path) == Cardinality(ChildKeys(root, path))
\* keyToChildNode[key] = createNode()
AddChild(root, path, key) ==
    [p \in DOMAIN root \cup {Append(path, key)} |->
        IF p = Append(path, key) THEN createNode ELSE root[p]]

\* ---------------------------------------------------------------- scoring
\* getSeqDistance that leaves the wildcards out of the similarity always
getSeqDistanceNoParams(cfg, seq1, seq2, includeParams) ==
    IF Len(seq1) # Len(seq2) THEN [panic |-> TRUE, sim |-> 0, paramCount |-> 0]
    ELSE [panic |-> FALSE,
          sim |-> Cardinality({i \in 1..Len(seq1) :
                                  seq1[i] # cfg.ParamString /\ seq1[i] = seq2[i]}),
          paramCount |-> Cardinality({i \in 1..Len(seq1) : seq1[i] = cfg.ParamString})]

\* The similarity is kept as its numerator simTokens over len(seq1).
getSeqDistance(cfg, seq1, seq2, includeParams) ==
    IF Len(seq1) # Len(seq2) THEN [panic |-> TRUE, sim |-> 0, paramCount |-> 0]
    ELSE LET paramCount == Cardinality({i \in 1..Len(seq1) : seq1[i] = cfg.ParamString})
             simTokens == Cardinality({i \in 1..Len(seq1) :
                                         seq1[i] # cfg.ParamString /\ seq1[i] = seq2[i]})
         IN [panic |-> FALSE,
             sim |-> IF includeParams THEN simTokens + paramCount ELSE simTokens,
             paramCount |-> paramCount]

\* the loop with a tie on score and wildcard count going to the later
\* candidate
RECURSIVE fastMatchLoopLastWins(_, _, _, _, _, _)
fastMatchLoopLastWins(cfg, clusterIDs, i, tokens, includeParams, st) ==
    IF i > Len(clusterIDs) \/ st.panic THEN st
    ELSE LET clusterID == clusterIDs[i]
             cache == Get(st.cache, clusterID)
         IN IF ~Has(st.cache, clusterID)
            THEN fastMatchLoopLastWins(cfg, clusterIDs, i + 1, tokens, includeParams, st)
            ELSE LET d == getSeqDistance(cfg, cache.items[clusterID].Tokens,
                                         tokens, includeParams)
                 IN IF d.panic
                    THEN [st EXCEPT !.cache = cache, !.panic = TRUE]
                    ELSE IF d.sim > st.maxSim
                            \/ (d.sim = st.maxSim /\ d.paramCount >= st.maxParamCount)
                    THEN fastMatchLoopLastWins(cfg, clusterIDs, i + 1, tokens, includeParams,
                             [cache |-> cache, maxSim |-> d.sim,
                              maxParamCount |-> d.paramCount,
                              maxCluster |-> clusterID, panic |-> FALSE])
                    ELSE fastMatchLoopLastWins(cfg, clusterIDs, i + 1, tokens, includeParams,
                             [st EXCEPT !.cache = cache])

\* the loop without the nil check: an id that does not resolve is
\* dereferenced
RECURSIVE fastMatchLoopNoSkip(_, _, _, _, _, _)
fastMatchLoopNoSkip(cfg, clusterIDs, i, tokens, includeParams, st) ==
    IF i > Len(clusterIDs) \/ st.panic THEN st
    ELSE LET clusterID == clusterIDs[i]
             cache == Get(st.cache, clusterID)
         IN IF ~Has(st.cache, clusterID)
            THEN [st EXCEPT !.panic = TRUE]
            ELSE LET d == getSeqDistance(cfg, cache.items[clusterID].Tokens,
                                         tokens, includeParams)
                 IN IF d.panic
                    THEN [st EXCEPT !.cache = cache, !.panic = TRUE]
                    ELSE IF d.sim > st.maxSim
                            \/ (d.sim = st.maxSim /\ d.paramCount > st.maxParamCount)
                    THEN fastMatchLoopNoSkip(cfg, clusterIDs, i + 1, tokens, includeParams,
                             [cache |-> cache, maxSim |-> d.sim,
                              maxParamCount |-> d.paramCount,
                              maxCluster |-> clusterID, panic |-> FALSE])
                    ELSE fastMatchLoopNoSkip(cfg, clusterIDs, i + 1, tokens, includeParams,
                             [st EXCEPT !.cache = cache])

\* the loop of fastMatch from position i of clusterIDs; maxSim is the
\* numerator over len(tokens), -1.0 being -len(tokens)
RECURSIVE fastMatchLoop(_, _, _, _, _, _)
fastMatchLoop(cfg, clusterIDs, i, tokens, includeParams, st) ==
    IF i > Len(clusterIDs) \/ st.panic THEN st
    ELSE LET clusterID == clusterIDs[i]
             cache == Get(st.cache, clusterID)
         IN IF ~Has(st.cache, clusterID)
            THEN fastMatchLoop(cfg, clusterIDs, i + 1, tokens, includeParams, st)
            ELSE LET d == getSeqDistance(cfg, cache.items[clusterID].Tokens,
                                         tokens, includeParams)
                 IN IF d.panic
                    THEN [st EXCEPT !.cache = cache, !.panic = TRUE]
                    ELSE IF d.sim > st.maxSim
                            \/ (d.sim = st.maxSim /\ d.paramCount > st.maxParamCount)
                    THEN fastMatchLoop(cfg, clusterIDs, i + 1, tokens, includeParams,
                             [cache |-> cache, maxSim |-> d.sim,
                              maxParamCount |-> d.paramCount,
                              maxCluster |-> clusterID, panic |-> FALSE])
                    ELSE fastMatchLoop(cfg, clusterIDs, i + 1, tokens, includeParams,
                             [st EXCEPT !.cache = cache])

\* a fastMatch that returns the best candidate whatever its score
fastMatchNoThreshold(cfg, cache, clusterIDs, tokens, simTh, includeParams) ==
    LET st == fastMatchLoop(cfg, clusterIDs, 1, tokens, includeParams,
                  [cache |-> cache, maxSim |-> -Max(Len(tokens), 1),
                   maxParamCount |-> -1, maxCluster |-> 0, panic |-> FALSE])
    IN [cache |-> st.cache,
        panic |-> st.panic,
        cluster |-> IF ~st.panic THEN st.maxCluster ELSE 0]

\* simTh is the fraction simTh.num / simTh.den; cluster 0 is nil
fastMatch(cfg, cache, clusterIDs, tokens, simTh, includeParams) ==
    LET st == fastMatchLoop(cfg, clusterIDs, 1, tokens, includeParams,
                  [cache |-> cache, maxSim |-> -Max(Len(tokens), 1),
                   maxParamCount |-> -1, maxCluster |-> 0, panic |-> FALSE])
    IN [cache |-> st.cache,
        panic |-> st.panic,
        cluster |-> IF ~st.panic /\ st.maxSim * simTh.den >= simTh.num * Len(tokens)
                    THEN st.maxCluster ELSE 0]

\* a descent that tries the wildcard child before the exact child
RECURSIVE SearchDescendWildcardFirst(_, _, _, _, _)
SearchDescendWildcardFirst(cfg, root, tokens, curNode, curNodeDepth) ==
    IF curNodeDepth > Len(tokens) THEN curNode
    ELSE IF curNodeDepth >= cfg.maxNodeDepth THEN curNode
    ELSE IF curNodeDepth = Len(tokens) THEN curNode
    ELSE LET token == tokens[curNodeDepth]
         IN IF HasChild(root, curNode, cfg.ParamString)
            THEN SearchDescendWildcardFirst(cfg, root, tokens,
                     Append(curNode, cfg.ParamString), curNodeDepth + 1)
            ELSE IF HasChild(root, curNode, token)
            THEN SearchDescendWildcardFirst(cfg, root, tokens, Append(curNode, token),
                                            curNodeDepth + 1)
            ELSE <<>>

\* the descent of treeSearch: the path of the node reached, or <<>> (the
\* root stands for "no node") when neither the token nor the wildcard has a
\* child
RECURSIVE SearchDescend(_, _, _, _, _)
SearchDescend(cfg, root, tokens, curNode, curNodeDepth) ==
    IF curNodeDepth > Len(tokens) THEN curNode
    ELSE IF curNodeDepth >= cfg.maxNodeDepth THEN curNode
    ELSE IF curNodeDepth = Len(tokens) THEN curNode
    ELSE LET token == tokens[curNodeDepth]
         IN IF HasChild(root, curNode, token)
            THEN SearchDescend(cfg, root, tokens, Append(curNode, token), curNodeDepth + 1)
            ELSE IF HasChild(root, curNode, cfg.ParamString)
            THEN SearchDescend(cfg, root, tokens, Append(curNode, cfg.ParamString),
                               curNodeDepth + 1)
            ELSE <<>>

treeSearch(cfg, root, cache, tokens, simTh, includeParams) ==
    LET tokenCount == Len(tokens)
        first == <<Itoa(tokenCount)>>
    IN IF first \notin DOMAIN root
       THEN [cache |-> cache, panic |-> FALSE, cluster |-> 0]
       ELSE IF tokenCount = 0
       THEN IF root[first] = <<>>
            THEN [cache |-> cache, panic |-> TRUE, cluster |-> 0]
            ELSE [cache |-> Get(cache, root[first][1]), panic |-> FALSE,
                  cluster |-> IF Has(cache, root[first][1]) THEN root[first][1] ELSE 0]
       ELSE LET curNode == SearchDescend(cfg, root, tokens, first, 1)
            IN IF curNode = <<>>
               THEN [cache |-> cache, panic |-> FALSE, cluster |-> 0]
               ELSE fastMatch(cfg, cache, root[curNode], tokens, simTh, includeParams)

\* createTemplate that takes the line's token where the two differ and the
\* template holds the wildcard
createTemplateRespecialize(cfg, seq1, seq2) ==
    [i \in 1..Len(seq2) |->
        IF seq1[i] = seq2[i] THEN seq2[i]
        ELSE IF seq2[i] = cfg.ParamString THEN seq1[i] ELSE cfg.ParamString]

\* createTemplate that drops the positions where the two differ
createTemplateDropping(cfg, seq1, seq2) ==
    LET keep == {i \in 1..Len(seq2) : seq1[i] = seq2[i]}
        RECURSIVE pick(_)
        pick(i) == IF i > Len(seq2) THEN <<>>
                   ELSE (IF i \in keep THEN <<seq2[i]>> ELSE <<>>) \o pick(i + 1)
    IN pick(1)

\* a merge that leaves the old template as it is
createTemplateUnchanged(cfg, seq1, seq2) == seq2

createTemplate(cfg, seq1, seq2) ==
    [i \in 1..Len(seq2) |-> IF seq1[i] # seq2[i] THEN cfg.ParamString ELSE seq2[i]]

\* ---------------------------------------------------------- tree insertion
\* a clean-up that keeps every listed id, resolving or not
CleanLoopKeepsAll(cache, clusterIDs, i, newClusterIDs) ==
    [cache |-> cache, clusterIDs |-> clusterIDs]

\* the clean-up of stale clusters at a leaf: every listed id is looked up with
\* Get, in order, and kept when it resolves
RECURSIVE CleanLoop(_, _, _, _)
CleanLoop(cache, clusterIDs, i, newClusterIDs) ==
    IF i > Len(clusterIDs) THEN [cache |-> cache, clusterIDs |-> newClusterIDs]
    ELSE CleanLoop(Get(cache, clusterIDs[i]), clusterIDs, i + 1,
                   IF Has(cache, clusterIDs[i])
                   THEN Append(newClusterIDs, clusterIDs[i]) ELSE newClusterIDs)

\* an insertion that creates a child while the node has MaxChildren or fewer
RECURSIVE InsertDescendOffByOne(_, _, _, _, _, _)
InsertDescendOffByOne(cfg, root, cache, cluster, curNode, currentDepth) ==
    LET tokenCount == Len(cluster.Tokens)
        token == cluster.Tokens[currentDepth]
        n == NumChildren(root, curNode)
        into(key) == InsertDescendOffByOne(cfg, root, cache, cluster,
                                           Append(curNode, key), currentDepth + 1)
        create(key) == InsertDescendOffByOne(cfg, AddChild(root, curNode, key), cache,
                                             cluster, Append(curNode, key), currentDepth + 1)
    IN IF currentDepth > tokenCount
       THEN [root |-> root, cache |-> cache, panic |-> FALSE]
       ELSE IF currentDepth >= cfg.maxNodeDepth \/ currentDepth >= tokenCount
       THEN LET c == CleanLoop(cache, root[curNode], 1, <<>>)
            IN [root |-> [root EXCEPT ![curNode] = Append(c.clusterIDs, cluster.id)],
                cache |-> c.cache, panic |-> FALSE]
       ELSE IF HasChild(root, curNode, token) THEN into(token)
       ELSE IF ~hasNumbers(token)
       THEN IF HasChild(root, curNode, cfg.ParamString)
            THEN IF n <= cfg.MaxChildren THEN create(token) ELSE into(cfg.ParamString)
            ELSE IF n + 1 < cfg.MaxChildren THEN create(token)
            ELSE IF n + 1 = cfg.MaxChildren THEN create(cfg.ParamString)
            ELSE [root |-> root, cache |-> cache, panic |-> TRUE]
       ELSE IF ~HasChild(root, curNode, cfg.ParamString)
            THEN create(cfg.ParamString) ELSE into(cfg.ParamString)

\* an insertion that, with no wildcard child yet, fills the node with exact
\* children up to MaxChildren and leaves no slot for the wildcard
RECURSIVE InsertDescendFillsNode(_, _, _, _, _, _)
InsertDescendFillsNode(cfg, root, cache, cluster, curNode, currentDepth) ==
    LET tokenCount == Len(cluster.Tokens)
        token == cluster.Tokens[currentDepth]
        n == NumChildren(root, curNode)
        into(key) == InsertDescendFillsNode(cfg, root, cache, cluster,
                                   Append(curNode, key), currentDepth + 1)
        create(key) == InsertDescendFillsNode(cfg, AddChild(root, curNode, key), cache, cluster,
                                     Append(curNode, key), currentDepth + 1)
    IN IF currentDepth > tokenCount
       THEN [root |-> root, cache |-> cache, panic |-> FALSE]
       ELSE IF currentDepth >= cfg.maxNodeDepth \/ currentDepth >= tokenCount
       THEN LET c == CleanLoop(cache, root[curNode], 1, <<>>)
            IN [root |-> [root EXCEPT ![curNode] = Append(c.clusterIDs, cluster.id)],
                cache |-> c.cache, panic |-> FALSE]
       ELSE IF HasChild(root, curNode, token) THEN into(token)
       ELSE IF ~hasNumbers(token)
       THEN IF HasChild(root, curNode, cfg.ParamString)
            THEN IF n < cfg.MaxChildren THEN create(token) ELSE into(cfg.ParamString)
            ELSE IF n + 1 <= cfg.MaxChildren THEN create(token)
            ELSE IF n + 1 = cfg.MaxChildren THEN create(cfg.ParamString)
            \* curNode becomes nil: the next iteration dereferences it
            ELSE [root |-> root, cache |-> cache, panic |-> TRUE]
       ELSE IF ~HasChild(root, curNode, cfg.ParamString)
            THEN create(cfg.ParamString) ELSE into(cfg.ParamString)

\* the loop of addSeqToPrefixTree at curNode for the token at currentDepth
RECURSIVE InsertDescend(_, _, _, _, _, _)
InsertDescend(cfg, root, cache, cluster, curNode, currentDepth) ==
    LET tokenCount == Len(cluster.Tokens)
        token == cluster.Tokens[currentDepth]
        n == NumChildren(root, curNode)
        into(key) == InsertDescend(cfg, root, cache, cluster,
                                   Append(curNode, key), currentDepth + 1)
        create(key) == InsertDescend(cfg, AddChild(root, curNode, key), cache, cluster,
                                     Append(curNode, key), currentDepth + 1)
    IN IF currentDepth > tokenCount
       THEN [root |-> root, cache |-> cache, panic |-> FALSE]
       ELSE IF currentDepth >= cfg.maxNodeDepth \/ currentDepth >= tokenCount
       THEN LET c == CleanLoop(cache, root[curNode], 1, <<>>)
            IN [root |-> [root EXCEPT ![curNode] = Append(c.clusterIDs, cluster.id)],
                cache |-> c.cache, panic |-> FALSE]
       ELSE IF HasChild(root, curNode, token) THEN into(token)
       ELSE IF ~hasNumbers(token)
       THEN IF HasChild(root, curNode, cfg.ParamString)
            THEN IF n < cfg.MaxChildren THEN create(token) ELSE into(cfg.ParamString)
            ELSE IF n + 1 < cfg.MaxChildren THEN create(token)
            ELSE IF n + 1 = cfg.MaxChildren THEN create(cfg.ParamString)
            \* curNode becomes nil: the next iteration dereferences it
            ELSE [root |-> root, cache |-> cache, panic |-> TRUE]
       ELSE IF ~HasChild(root, curNode, cfg.ParamString)
            THEN create(cfg.ParamString) ELSE into(cfg.ParamString)

\* an insertion that puts every cluster under one first-layer node, whatever
\* its token count
addSeqToPrefixTreeOneLayer(cfg, root, cache, cluster) ==
    LET tokenCount == Len(cluster.Tokens)
        first == <<Itoa(0)>>
        root1 == IF first \in DOMAIN root THEN root ELSE AddChild(root, <<>>, Itoa(0))
    IN IF tokenCount = 0
       THEN [root |-> [root1 EXCEPT ![first] = Append(@, cluster.id)],
             cache |-> cache, panic |-> FALSE]
       ELSE InsertDescend(cfg, root1, cache, cluster, first, 1)

addSeqToPrefixTree(cfg, root, cache, cluster) ==
    LET tokenCount == Len(cluster.Tokens)
        first == <<Itoa(tokenCount)>>
        root1 == IF first \in DOMAIN root THEN root ELSE AddChild(root, <<>>, Itoa(tokenCount))
    IN IF tokenCount = 0
       THEN [root |-> [root1 EXCEPT ![first] = Append(@, cluster.id)],
             cache |-> cache, panic |-> FALSE]
       ELSE InsertDescend(cfg, root1, cache, cluster, first, 1)

\* ----------------------------------------------------------------- engine
\* the configurations the engine is constructed with; SimTh is a fraction
DefaultConfig ==
    [LogClusterDepth |-> 4, SimTh |-> [num |-> 2, den |-> 5], MaxChildren |-> 100,
     ExtraDelimiters |-> <<>>, MaxClusters |-> 0, ParamString |-> <<"<", "*", ">">>,
     maxNodeDepth |-> 0]

Configs ==
    {[DefaultConfig EXCEPT !.LogClusterDepth = k[1], !.MaxChildren = k[2],
                           !.MaxClusters = k[3], !.ExtraDelimiters = << <<"=">> >>] :
        k \in {<<3, 2, 0>>, <<4, 2, 2>>, <<5, 1, 1>>}}

\* New(config): the engine just constructed
New(cfg) ==
    [config |-> [cfg EXCEPT !.maxNodeDepth = cfg.LogClusterDepth - 2],
     rootNode |-> (<<>> :> createNode),
     idToCluster |-> createLogClusterCache(cfg.MaxClusters),
     clustersCounter |-> 0,
     panicked |-> cfg.LogClusterDepth < 3]

Clusters == Values(idToCluster)
Live == Range(idToCluster.keys)
Cluster(id) == idToCluster.items[id]

NoRet == [op |-> "New", content |-> <<>>, id |-> 0, Size |-> 0,
          x |-> <<>>, start |-> 0, end |-> 0, out |-> <<>>]

InitWith(cfgs) ==
    /\ \E cfg \in cfgs :
          LET d == New(cfg)
          IN /\ config = d.config
             /\ rootNode = d.rootNode
             /\ idToCluster = d.idToCluster
             /\ clustersCounter = d.clustersCounter
             /\ panicked = d.panicked
    /\ ret = NoRet
    /\ nTrain = 0
    /\ assigned = <<>>
    /\ touchOrder = <<>>
    /\ created = <<>>

Init == InitWith(Configs)

\* the lines assigned to the live clusters, after id was assigned content
Assign(cache, id, content) ==
    [k \in Range(cache.keys) |->
        IF k = id THEN (IF k \in DOMAIN assigned THEN Append(assigned[k], content)
                        ELSE <<content>>)
        ELSE assigned[k]]
\* the live clusters from the least to the most recently created or matched
Touch(cache, id) ==
    Append(SelectSeq(touchOrder, LAMBDA k : k # id /\ k \in Range(cache.keys)), id)

\* variant of TrainCreate that numbers the new cluster after the cache's
\* current population instead of the creation counter
TrainCreateReusingIds(content, ts, contentTokens, m) ==
    LET clusterID == Len(m.cache.keys) + 1
        newCluster == [id |-> clusterID, Size |-> 1, Tokens |-> contentTokens,
                       Samples |-> <<content>>, Volume |-> initVolume(ts)]
    IN \E a \in {addSeqToPrefixTree(config, rootNode, Set(m.cache, clusterID, newCluster),
                                    newCluster)} :
          /\ clustersCounter' = clustersCounter + 1
          /\ idToCluster' = a.cache
          /\ rootNode' = a.root
          /\ panicked' = a.panic
          /\ ret' = [NoRet EXCEPT !.op = "Train", !.content = content,
                                  !.id = IF a.panic THEN 0 ELSE clusterID,
                                  !.Size = IF a.panic THEN 0 ELSE 1]
          /\ assigned' = Assign(a.cache, clusterID, content)
          /\ touchOrder' = Touch(a.cache, clusterID)
          /\ created' = Append(created, clusterID)

\* the branch of Train that creates a cluster
TrainCreate(content, ts, contentTokens, m) ==
    LET clusterID == clustersCounter + 1
        newCluster == [id |-> clusterID, Size |-> 1, Tokens |-> contentTokens,
                       Samples |-> <<content>>, Volume |-> initVolume(ts)]
    IN \E a \in {addSeqToPrefixTree(config, rootNode, Set(m.cache, clusterID, newCluster),
                                    newCluster)} :
          /\ clustersCounter' = clusterID
          /\ idToCluster' = a.cache
          /\ rootNode' = a.root
          /\ panicked' = a.panic
          /\ ret' = [NoRet EXCEPT !.op = "Train", !.content = content,
                                  !.id = IF a.panic THEN 0 ELSE clusterID,
                                  !.Size = IF a.panic THEN 0 ELSE 1]
          /\ assigned' = Assign(a.cache, clusterID, content)
          /\ touchOrder' = Touch(a.cache, clusterID)
          /\ created' = Append(created, clusterID)

\* the branch of Train that updates the matched cluster
TrainUpdate(content, ts, contentTokens, m) ==
    LET old == m.cache.items[m.cluster]
        merged == LogClusterAppend(
                      [old EXCEPT !.Tokens = createTemplate(config, contentTokens, old.Tokens),
                                  !.Size = old.Size + 1],
                      content, ts)
    IN \E hit \in {Get([m.cache EXCEPT !.items = [@ EXCEPT ![m.cluster] = merged]],
                       m.cluster)} :
          /\ idToCluster' = hit
          /\ ret' = [NoRet EXCEPT !.op = "Train", !.content = content,
                                  !.id = m.cluster, !.Size = hit.items[m.cluster].Size]
          /\ assigned' = Assign(hit, m.cluster, content)
          /\ touchOrder' = Touch(hit, m.cluster)
          /\ UNCHANGED <<rootNode, clustersCounter, panicked, created>>

Train(content, ts) ==
    /\ ~panicked
    /\ nTrain' = nTrain + 1
    /\ UNCHANGED config
    /\ \E contentTokens \in {getContentAsTokens(config, content)} :
       \E m \in {treeSearch(config, rootNode, idToCluster, contentTokens,
                            config.SimTh, FALSE)} :
          IF m.panic
          THEN /\ panicked' = TRUE
               /\ idToCluster' = m.cache
               /\ ret' = [NoRet EXCEPT !.op = "Train", !.content = content]
               /\ UNCHANGED <<rootNode, clustersCounter, assigned, touchOrder, created>>
          ELSE IF m.cluster = 0
          THEN TrainCreate(content, ts, contentTokens, m)
          ELSE TrainUpdate(content, ts, contentTokens, m)

\* Match that counts the line into the cluster it finds
MatchCounting(content) ==
    /\ ~panicked
    /\ \E m \in {treeSearch(config, rootNode, idToCluster,
                            getContentAsTokens(config, content),
                            [num |-> 1, den |-> 1], TRUE)} :
          /\ idToCluster' = IF m.cluster = 0 THEN m.cache
                            ELSE [m.cache EXCEPT !.items[m.cluster].Size = @ + 1]
          /\ panicked' = m.panic
          /\ ret' = [NoRet EXCEPT !.op = "Match", !.content = content, !.id = m.cluster]
    /\ UNCHANGED <<config, rootNode, clustersCounter, nTrain, assigned, touchOrder,
                 created>>

Match(content) ==
    /\ ~panicked
    /\ \E m \in {treeSearch(config, rootNode, idToCluster,
                            getContentAsTokens(config, content),
                            [num |-> 1, den |-> 1], TRUE)} :
          /\ idToCluster' = m.cache
          /\ panicked' = m.panic
          /\ ret' = [NoRet EXCEPT !.op = "Match", !.content = content, !.id = m.cluster]
    /\ UNCHANGED <<config, rootNode, clustersCounter, nTrain, assigned, touchOrder,
                 created>>

\* Volume.ForRange on the volume of a live cluster
VolumeForRange(id, start, end) ==
    /\ ~panicked
    /\ id \in Live
    /\ ret' = [NoRet EXCEPT !.op = "ForRange", !.id = id, !.x = Cluster(id).Volume,
                            !.start = start, !.end = end,
                            !.out = ForRange(Cluster(id).Volume, start, end)]
    /\ UNCHANGED <<config, rootNode, idToCluster, clustersCounter, panicked,
                   nTrain, assigned, touchOrder, created>>

\* ----------------------------------------------------------------- inputs
RECURSIVE Join(_)
Join(tokens) == IF Len(tokens) = 1 THEN tokens[1]
                ELSE tokens[1] \o <<" ">> \o Join(Tail(tokens))

Wild == DefaultConfig.ParamString

\* the lines of the engine specification: digit-free and digit-bearing first
\* tokens, a line holding the wildcard marker, lines of two and three
\* tokens, a line with an extra delimiter and one with surrounding blanks
Lines ==
    { Join(<< <<"1">>, <<"x">> >>),
      Join(<< <<"a">>, <<"x">> >>),
      Join(<< <<"a">>, <<"q">> >>),
      Join(<< <<"c">>, <<"q">> >>),
      Join(<< Wild, <<"x">> >>),
      Join(<< <<"a">>, <<"x">>, <<"y">> >>),
      <<" ", "a", "=", "x", "\n">> }
Timestamps == {25}

\* the volume specification: few lines, many timestamps
VolLines == { Join(<< <<"a">>, <<"x">> >>), Join(<< <<"b">>, <<"y">> >>) }
VolTimestamps == {-5, 10, 25}
RangeBounds == {0, 10, 20, 30}

TrainStep == /\ nTrain < MaxTrain
             /\ \E content \in Lines, ts \in Timestamps : Train(content, ts)
MatchStep == \E content \in Lines : Match(content)

Next == TrainStep \/ MatchStep
Spec == Init /\ [][Next]_vars

VolInit == InitWith({DefaultConfig})
VolTrainStep == /\ nTrain < MaxVolTrain
                /\ \E content \in VolLines, ts \in VolTimestamps : Train(content, ts)
ForRangeStep == \E id \in Live, start \in RangeBounds, end \in RangeBounds :
                    VolumeForRange(id, start, end)
VolNext == VolTrainStep \/ ForRangeStep
SpecVolume == VolInit /\ [][VolNext]_vars

\* the threshold specification: one leaf per token count, unlimited cache,
\* similarity thresholds 0, 0.4, 0.5 and 1, wildcard-free lines of two and
\* three tokens that agree on none, some or all positions
SimConfigs ==
    {[DefaultConfig EXCEPT !.LogClusterDepth = 3, !.SimTh = th] :
        th \in {[num |-> 0, den |-> 1], [num |-> 2, den |-> 5],
                [num |-> 1, den |-> 2], [num |-> 1, den |-> 1]}}
SimLines ==
    { Join(<< <<"a">>, <<"x">>, <<"y">> >>),
      Join(<< <<"a">>, <<"x">>, <<"z">> >>),
      Join(<< <<"a">>, <<"q">>, <<"z">> >>),
      Join(<< <<"c">>, <<"q">>, <<"w">> >>),
      Join(<< <<"a">>, <<"x">> >>),
      Join(<< <<"a">>, <<"q">> >>),
      Join(<< <<"c">>, <<"q">> >>) }

SimInit == InitWith(SimConfigs)
SimTrainStep == /\ nTrain < MaxSimTrain
                /\ \E content \in SimLines, ts \in Timestamps : Train(content, ts)
SimNext == SimTrainStep
SpecSim == SimInit /\ [][SimNext]_vars

\* ------------------------------------------------------------- properties
\* the tokens of a line under the engine's configuration; the lines of the
\* specifications are tokenised once, per set of extra delimiters
TokenTable ==
    [d \in {c.ExtraDelimiters : c \in Configs \cup SimConfigs \cup {DefaultConfig}},
     l \in Lines \cup VolLines \cup SimLines |->
        getContentAsTokens([ExtraDelimiters |-> d], l)]
TokensOf(content) ==
    IF <<config.ExtraDelimiters, content>> \in DOMAIN TokenTable
    THEN TokenTable[config.ExtraDelimiters, content]
    ELSE getContentAsTokens(config, content)
StrictlyIncreasing(x) == \A i \in 1..(Len(x) - 1) : x[i][1] < x[i + 1][1]
NoWildcard(tokens) == \A i \in 1..Len(tokens) : tokens[i] # config.ParamString
\* a Train call was made in this step
TrainCalled == nTrain' = nTrain + 1

C2_ForRangeHalfOpen ==
    (ret.op = "ForRange" /\ StrictlyIncreasing(ret.x))
        => ret.out = SelectSeq(ret.x, LAMBDA b : ret.start <= b[1] /\ b[1] < ret.end)

\* C3: with MaxClusters = N >= 1 there are never more than N live clusters;
\* with MaxClusters = 0 every cluster ever created is still live.
C3_CapacityBound ==
    /\ config.MaxClusters >= 1 => Len(Clusters) <= config.MaxClusters
    /\ config.MaxClusters = 0 => Live = 1..clustersCounter
\* a full cache from which a cluster has been evicted
C3_Witness ==
    /\ config.MaxClusters >= 1
    /\ Len(Clusters) = config.MaxClusters
    /\ clustersCounter > config.MaxClusters

\* C4: when a Train call creates a cluster while MaxClusters clusters are
\* live, the cluster evicted is the one least recently created or matched by
\* a Train call.
C4_EvictsLeastRecentlyTouched ==
    [][(/\ config.MaxClusters >= 1
        /\ clustersCounter' = clustersCounter + 1
        /\ Len(idToCluster.keys) = config.MaxClusters)
          => Live \ Live' = {Head(touchOrder)}]_vars

\* C5: training a line without wildcard token twice in a row returns the same
\* cluster both times, and the second call adds exactly one to its Size.
C5_TrainTwice ==
    [][(/\ ret.op = "Train"
        /\ TrainCalled
        /\ ret'.content = ret.content
        /\ NoWildcard(TokensOf(ret.content)))
          => (ret'.id # 0 /\ ret'.id = ret.id /\ ret'.Size = ret.Size + 1)]_vars
\* the second of two Train calls of one line, after an eviction
C5_Witness ==
    /\ ret.op = "Train" /\ ret.id \in Live
    /\ NoWildcard(TokensOf(ret.content))
    /\ Len(assigned[ret.id]) >= 2
    /\ assigned[ret.id][Len(assigned[ret.id])] = ret.content
    /\ assigned[ret.id][Len(assigned[ret.id]) - 1] = ret.content
    /\ clustersCounter > Len(Clusters)

\* C6: Match leaves the live clusters (identifiers, Tokens, Size, Samples,
\* Volume), the cluster counter and the prefix tree as they were.
C6_MatchReadOnly ==
    [][ret'.op = "Match"
          => (/\ idToCluster'.items = idToCluster.items
              /\ clustersCounter' = clustersCounter
              /\ rootNode' = rootNode)]_vars
\* a Match that returned a cluster
C6_Witness == ret.op = "Match" /\ ret.id \in Live

\* no cluster has been evicted so far
NoEviction == clustersCounter = Len(Clusters)
\* the template matches the tokens at every position that is not a wildcard
Covers(template, tokens) ==
    /\ Len(template) = Len(tokens)
    /\ \A i \in 1..Len(tokens) : template[i] = tokens[i] \/ template[i] = config.ParamString
\* the identifiers listed at the node the descent of treeSearch reaches
LeafOf(tokens) ==
    IF <<Itoa(Len(tokens))>> \in DOMAIN rootNode
    THEN LET curNode == SearchDescend(config, rootNode, tokens, <<Itoa(Len(tokens))>>, 1)
         IN IF curNode = <<>> THEN <<>> ELSE rootNode[curNode]
    ELSE <<>>
\* the line was assigned to the cluster, or differs from such a line only
\* where the cluster's template is the wildcard
TrainedInto(id, tokens) ==
    \E i \in 1..Len(assigned[id]) :
        LET l == TokensOf(assigned[id][i])
        IN /\ Len(l) = Len(tokens) /\ Len(l) = Len(Cluster(id).Tokens)
           /\ \A j \in 1..Len(l) :
                 l[j] = tokens[j] \/ Cluster(id).Tokens[j] = config.ParamString

\* C7 (as claimed, for the trained line itself): with no eviction, Match of a
\* line that Train assigned to cluster C returns C, whatever was trained since.
C7_MatchFindsTrained ==
    (ret.op = "Match" /\ NoEviction)
        => \A id \in Live :
              (\E i \in 1..Len(assigned[id]) :
                   TokensOf(assigned[id][i]) = TokensOf(ret.content))
                  => ret.id = id
\* C7 (amended): with no eviction, Match of a line that Train assigned to
\* cluster C, or of a line that differs from it only where C's template is
\* the wildcard, returns C provided that the descent for the line still ends
\* at a leaf listing C and no other live cluster listed there has a template
\* matching the line at all its non-wildcard positions.
C7_MatchFindsTrainedInLeaf ==
    (ret.op = "Match" /\ NoEviction)
        => \A id \in Live :
              (/\ TrainedInto(id, TokensOf(ret.content))
               /\ id \in Range(LeafOf(TokensOf(ret.content)))
               /\ \A other \in (Range(LeafOf(TokensOf(ret.content))) \cap Live) \ {id} :
                     ~Covers(Cluster(other).Tokens, TokensOf(ret.content)))
                  => ret.id = id
\* a Match that returned the cluster for a line never trained, which differs
\* from a trained one at a wildcard position
C7_Witness ==
    /\ ret.op = "Match" /\ NoEviction /\ ret.id \in Live
    /\ TrainedInto(ret.id, TokensOf(ret.content))
    /\ \A i \in 1..Len(assigned[ret.id]) :
          TokensOf(assigned[ret.id][i]) # TokensOf(ret.content)
    /\ Cardinality(Range(LeafOf(TokensOf(ret.content))) \cap Live) >= 2

\* C8: a template position that holds the wildcard keeps it for as long as
\* the cluster lives, and a literal never changes to another literal.
C8_MonotonicGeneralization ==
    [][\A id \in Live \cap Live' :
          /\ Len(Cluster(id)'.Tokens) = Len(Cluster(id).Tokens)
          /\ \A i \in 1..Len(Cluster(id).Tokens) :
                \/ Cluster(id)'.Tokens[i] = Cluster(id).Tokens[i]
                \/ /\ Cluster(id)'.Tokens[i] = config.ParamString
                   /\ Cluster(id).Tokens[i] # config.ParamString]_vars
\* a cluster whose template got a wildcard by a merge and was merged again
C8_Witness ==
    \E id \in Live :
        /\ Cluster(id).Size >= 3
        /\ \E i \in 1..Len(Cluster(id).Tokens) :
              /\ Cluster(id).Tokens[i] = config.ParamString
              /\ TokensOf(assigned[id][1])[i] # config.ParamString
              /\ TokensOf(assigned[id][2])[i] # TokensOf(assigned[id][1])[i]

\* C9: all lines assigned to a cluster have the same number of tokens, which
\* is the length the template had at creation and has ever since.
C9_TokenCountPartitioning ==
    \A id \in Live :
        \A i \in 1..Len(assigned[id]) :
            /\ Len(TokensOf(assigned[id][i])) = Len(TokensOf(assigned[id][1]))
            /\ Len(Cluster(id).Tokens) = Len(TokensOf(assigned[id][1]))
\* clusters of different token counts side by side, one of them merged
C9_Witness ==
    \E id1 \in Live, id2 \in Live :
        /\ Len(Cluster(id1).Tokens) # Len(Cluster(id2).Tokens)
        /\ Cluster(id1).Size >= 2
        /\ Cluster(id1).Tokens # TokensOf(assigned[id1][1])

\* C10: with MaxChildren >= 1 no node below the root has more than
\* MaxChildren children, the wildcard child included.
C10_MaxChildren ==
    config.MaxChildren >= 1
        => \A path \in DOMAIN rootNode :
              path # <<>> => NumChildren(rootNode, path) <= config.MaxChildren
\* a full node, with a cluster whose digit-free first token went to the
\* wildcard child and one whose digit-bearing first token did
C10_Witness ==
    \E path \in DOMAIN rootNode :
        /\ Len(path) = 1
        /\ NumChildren(rootNode, path) = config.MaxChildren
        /\ HasChild(rootNode, path, config.ParamString)
        /\ config.maxNodeDepth >= 2
        /\ \E id1 \in Live, id2 \in Live :
              /\ id1 \in Range(rootNode[Append(path, config.ParamString)])
              /\ ~hasNumbers(TokensOf(assigned[id1][1])[1])
              /\ TokensOf(assigned[id1][1])[1] # config.ParamString
              /\ hasNumbers(TokensOf(assigned[id2][1])[1])

\* identifiers listed in the leaves of the tree that no longer resolve
StaleIds == UNION {Range(rootNode[p]) : p \in DOMAIN rootNode} \ Live

\* C11: clusters are numbered 1, 2, 3, ... in creation order and no number is
\* ever given twice, evictions included: the k-th cluster created has id k,
\* the counter equals the number of clusters created, every live cluster is
\* stored under its own id, and an id is listed at most once in the whole
\* tree, so an id left behind in a leaf can only ever resolve to the cluster
\* that was inserted there.
C11_IdsNeverReused ==
    /\ Len(created) = clustersCounter
    /\ \A k \in DOMAIN created : created[k] = k
    /\ \A id \in Live : Cluster(id).id = id /\ id \in Range(created)
    /\ \A p \in DOMAIN rootNode, q \in DOMAIN rootNode :
         \A i \in DOMAIN rootNode[p], j \in DOMAIN rootNode[q] :
            rootNode[p][i] = rootNode[q][j] => p = q /\ i = j

\* a cluster was created after an eviction left a stale id in a leaf
C11_Witness ==
    \E id \in StaleIds : id < clustersCounter /\ clustersCounter \in Live

\* C12: after any sequence of Volume.Add calls, with timestamps arriving in
\* any order, the bucket timestamps of every live cluster's Values are
\* strictly increasing, so that no bucket timestamp appears twice.
C12_BucketsStrictlyIncreasing ==
    \A id \in Live : StrictlyIncreasing(Cluster(id).Volume)

\* C13: Match leaves the cache's least-recently-used order exactly as it was,
\* and Train moves only the cluster it created or matched to the most recent
\* end, leaving the relative order of the other live clusters unchanged.
C13_RecencyOnlyByTrain ==
    [][/\ (ret'.op = "Match" /\ nTrain' = nTrain)
            => idToCluster'.keys = idToCluster.keys
       /\ (TrainCalled /\ ~panicked')
            => idToCluster'.keys =
                  Append(SelectSeq(idToCluster.keys,
                                   LAMBDA k : k # ret'.id /\ k \in Range(idToCluster'.keys)),
                         ret'.id)]_vars

\* C14: when a Train call creates a cluster and the cache, being full, evicts
\* another, exactly one candidate list of the tree changes, the one of the
\* leaf that receives the new id: it becomes its previously listed ids that
\* still resolve, in their previous order, followed by the new id. Every other
\* list is as before (a node created on the way has an empty list), also where
\* it lists the evicted id.
C14_EvictionTouchesOneLeaf ==
    [][(/\ Len(created') = Len(created) + 1
        /\ Len(idToCluster.keys) = idToCluster.size
        /\ ~panicked')
          => LET prev(p) == IF p \in DOMAIN rootNode THEN rootNode[p] ELSE <<>>
             IN /\ DOMAIN rootNode \subseteq DOMAIN rootNode'
                /\ \E p \in DOMAIN rootNode' :
                     /\ rootNode'[p] =
                          Append(SelectSeq(prev(p),
                                           LAMBDA k : k \in Range(idToCluster'.keys)),
                                 clustersCounter')
                     /\ \A q \in DOMAIN rootNode' \ {p} : rootNode'[q] = prev(q)]_vars

\* the last call created a cluster in a full cache; the receiving leaf kept a
\* candidate that still resolves, and another leaf still lists a stale id
C14_Witness ==
    /\ ret.op = "Train" /\ ret.id = clustersCounter /\ ret.Size = 1
    /\ clustersCounter > Len(idToCluster.keys)
    /\ \E p \in DOMAIN rootNode, q \in DOMAIN rootNode :
          /\ p # q
          /\ Len(rootNode[p]) >= 2
          /\ rootNode[p][Len(rootNode[p])] = clustersCounter
          /\ Range(rootNode[q]) \cap StaleIds # {}

\* C15: a stale id in a leaf never surfaces: the cluster a Train or Match call
\* returns is live in the cache when the call returns, and an id that does not
\* resolve is skipped without a fault, for unlimited and for limited caches.
C15_ReturnedClusterIsLive ==
    /\ ~panicked
    /\ ret.op = "Train" => ret.id \in Live
    /\ (ret.op = "Match" /\ ret.id # 0) => ret.id \in Live

\* a Match that returned a cluster from a leaf that also lists a stale id
C15_Witness ==
    /\ ret.op = "Match" /\ ret.id \in Live
    /\ config.MaxClusters >= 1
    /\ ret.id \in Range(LeafOf(TokensOf(ret.content)))
    /\ Range(LeafOf(TokensOf(ret.content))) \cap StaleIds # {}

\* C16: the length-mismatch fault is unreachable: every id listed under the
\* first-layer node keyed by token count T resolves, if it resolves at all, to
\* a cluster whose template has exactly T tokens, so getSeqDistance and
\* createTemplate are only ever called on sequences of equal length and no
\* call panics.
C16_NoLengthMismatch ==
    /\ ~panicked
    /\ \A p \in DOMAIN rootNode :
          \A id \in Range(rootNode[p]) \cap Live :
              Len(p) >= 1 /\ p[1] = Itoa(Len(Cluster(id).Tokens))

\* two token counts are in the tree, a live cluster has been merged by
\* createTemplate, and some leaf lists an id that no longer resolves
C16_Witness ==
    /\ Cardinality({p \in DOMAIN rootNode : Len(p) = 1}) >= 2
    /\ \E id \in Live : Cluster(id).Size >= 2
    /\ StaleIds # {}

\* C17: with MaxChildren >= 1, a node below the first layer that has reached
\* MaxChildren children has a wildcard child, so an insertion that finds no
\* exact child for a digit-free token at a full node always has a wildcard
\* child to descend into, and Train completes without a fault on every line.
C17_FullNodeHasWildcard ==
    /\ ~panicked
    /\ config.MaxChildren >= 1 =>
          \A p \in DOMAIN rootNode :
              (p # <<>> /\ NumChildren(rootNode, p) >= config.MaxChildren)
                 => HasChild(rootNode, p, config.ParamString)

\* the last Train created a cluster for a line whose first token is
\* digit-free, is not the wildcard and has no exact child at the full node
\* below the token count: the insertion descended into the wildcard child,
\* which an earlier cluster had created
C17_Witness ==
    /\ ret.op = "Train" /\ ret.id = clustersCounter /\ ret.Size = 1
    /\ LET tokens == TokensOf(ret.content)
           p == <<Itoa(Len(tokens))>>
       IN /\ Len(tokens) >= 2 /\ config.maxNodeDepth >= 2
          /\ ~hasNumbers(tokens[1]) /\ tokens[1] # config.ParamString
          /\ ~HasChild(rootNode, p, tokens[1])
          /\ NumChildren(rootNode, p) >= config.MaxChildren
          /\ ret.id \in Range(rootNode[Append(p, config.ParamString)])
          /\ Len(rootNode[Append(p, config.ParamString)]) >= 2

\* id is what the selection rule of a leaf picks for the tokens, 0 for none:
\* among the listed ids that resolve, the one with the highest score, on equal
\* scores the one with more wildcards in its template, on equal both the one
\* listed first; and only when its score reaches the threshold
SelectedBy(id, clusterIDs, tokens, simTh, includeParams) ==
    \E d \in {[i \in {k \in DOMAIN clusterIDs : clusterIDs[k] \in Live} |->
                 getSeqDistance(config, Cluster(clusterIDs[i]).Tokens, tokens,
                                includeParams)]} :
       LET better(i, j) == \/ d[i].sim > d[j].sim
                           \/ d[i].sim = d[j].sim /\ d[i].paramCount > d[j].paramCount
           best == {i \in DOMAIN d : \A j \in DOMAIN d \ {i} :
                                        better(i, j) \/ (~better(j, i) /\ i < j)}
       IN IF \E i \in best : d[i].sim * simTh.den >= simTh.num * Len(tokens)
          THEN \E i \in best : id = clusterIDs[i]
          ELSE id = 0

\* C18: the scoring of a leaf returns, among the candidates that resolve, the
\* one with the highest score, on equal scores the one with the larger
\* wildcard count, on equal both the one listed first, and only if its score
\* is at least the threshold; otherwise (also for an empty or all-stale list)
\* there is no match: Match returns nothing and Train creates a cluster.
C18_LeafSelection ==
    [][\A tokens \in {TokensOf(ret'.content)} : \A leaf \in {LeafOf(tokens)} :
          /\ (ret'.op = "Match" /\ nTrain' = nTrain /\ ~panicked')
               => SelectedBy(ret'.id, leaf, tokens, [num |-> 1, den |-> 1], TRUE)
          /\ (TrainCalled /\ ~panicked')
               => \/ /\ ret'.id # clustersCounter + 1
                     /\ SelectedBy(ret'.id, leaf, tokens, config.SimTh, FALSE)
                  \/ /\ ret'.id = clustersCounter + 1
                     /\ SelectedBy(0, leaf, tokens, config.SimTh, FALSE)]_vars

\* a Match returned the first of two live candidates of its leaf that tie on
\* score and on wildcard count
C18_Witness ==
    /\ ret.op = "Match" /\ ret.id \in Live
    /\ LET tokens == TokensOf(ret.content)
           leaf == LeafOf(tokens)
           d(i) == getSeqDistance(config, Cluster(leaf[i]).Tokens, tokens, TRUE)
       IN \E i \in DOMAIN leaf, j \in DOMAIN leaf :
             /\ i < j /\ leaf[i] = ret.id /\ leaf[j] \in Live
             /\ d(i) = d(j)

\* the token sequences of the lines assigned to a live cluster
LinesOf(id) == [k \in 1..Len(assigned[id]) |-> TokensOf(assigned[id][k])]

\* C19: for every live cluster none of whose lines contains the wildcard
\* marker as a token (in particular when no input line does), and every
\* position i: the template holds the literal x at i if every line assigned to
\* the cluster has x at i, and the wildcard marker at i otherwise.
C19_TemplateIsCommonTokens ==
    \A id \in Live :
       \A ls \in {LinesOf(id)} :
          (\A k \in DOMAIN ls : NoWildcard(ls[k]))
             => \A i \in 1..Len(Cluster(id).Tokens) :
                   IF \A k \in DOMAIN ls : ls[k][i] = ls[1][i]
                   THEN Cluster(id).Tokens[i] = ls[1][i]
                   ELSE Cluster(id).Tokens[i] = config.ParamString

\* a cluster of wildcard-free lines that agree at one position and differ at
\* another
C19_Witness ==
    \E id \in Live :
       \A ls \in {LinesOf(id)} :
          /\ Len(ls) >= 2
          /\ \A k \in DOMAIN ls : NoWildcard(ls[k])
          /\ \E i \in 1..Len(ls[1]), j \in 1..Len(ls[1]) :
                /\ Cluster(id).Tokens[i] = config.ParamString
                /\ Cluster(id).Tokens[j] = ls[1][j]
                /\ ls[2][i] # ls[1][i]

\* the number of positions of a template that hold a literal token
Literals(template) ==
    Cardinality({i \in 1..Len(template) : template[i] # config.ParamString})

\* C20: with SimTh in [0, 1], every live cluster whose lines are free of the
\* wildcard marker (in particular when no input line holds it) has a template
\* whose fraction of literal positions is at least SimTh: a cluster is never
\* generalised below the threshold.
C20_LiteralFractionAtLeastSimTh ==
    \A id \in Live :
       (\A k \in 1..Len(assigned[id]) : NoWildcard(TokensOf(assigned[id][k])))
          => Literals(Cluster(id).Tokens) * config.SimTh.den
                >= config.SimTh.num * Len(Cluster(id).Tokens)

\* under a positive threshold, a cluster was generalised down to exactly the
\* threshold while another line was refused and got a cluster of its own
C20_Witness ==
    /\ config.SimTh.num > 0
    /\ \E id \in Live :
          /\ Cluster(id).Size >= 2
          /\ Literals(Cluster(id).Tokens) < Len(Cluster(id).Tokens)
          /\ Literals(Cluster(id).Tokens) * config.SimTh.den
                = config.SimTh.num * Len(Cluster(id).Tokens)
          /\ \E id2 \in Live :
                /\ id2 # id
                /\ Len(Cluster(id2).Tokens) = Len(Cluster(id).Tokens)

====
